---- MODULE Spec2Model ----
(***************************************************************************)
(* SublimePTY, process.py: the session registry (Supervisor), the session  *)
(* (Process / PtyProcess) and the view wrapper (SublimeView), as a state   *)
(* machine.  One calling thread drives the handlers; the child processes,  *)
(* the host editor's viewport and CPython's memory management are the      *)
(* environment.                                                            *)
(***************************************************************************)
EXTENDS Integers, Sequences, FiniteSets, TLC

\* ------------------------------------------------------------- universe

\* Session ids (Process.id, a uuid4 hex string) and view wrappers.
Procs == {"p1", "p2"}
ViewIds == {"v1", "v2"}
\* Python's None, for attributes that hold an object or None.
None == "None"

\* Process.DEFAULT_COLUMNS / DEFAULT_LINES.
DEFAULT_COLUMNS == 80
DEFAULT_LINES == 24
\* The size argument of os.read in PtyProcess._read.
ChunkSize == 100

\* Bounds of the model.
\* Longest _views list of one session.
MaxAttach == 2
\* PTY pairs one session allocates over its lifetime (calls of _start).
MaxStarts == 2
\* Bytes a PTY master buffers unread.
MaxPending == 150
\* Bytes one call of _read reads before its child pauses.
MaxRead == 300
\* Screen lines the model tracks (lines 0 .. NLines-1 of the DiffScreen).
NLines == 2

Ptys == 1..MaxStarts
Lines == 0..(NLines - 1)
\* What a view's viewport can report as <<available columns, available lines>>.
Geoms == {<<100, 40>>, <<60, 20>>}
\* Sizes of one write of a child to its terminal.
WriteSizes == {ChunkSize \div 2, ChunkSize + ChunkSize \div 2}

VARIABLES
    handle,     \* handle[s]: the application holds a strong reference to session s
    vheld,      \* vheld[v]: the application holds a strong reference to view v
    alive,      \* alive[s]: the session object has not been deallocated
    valive,     \* valive[v]: the view wrapper has not been deallocated
    processes,  \* Supervisor.processes: ids whose weak entry is still there
    views,      \* Process._views, a list of views
    vproc,      \* SublimeView._process, a session or None
    vgeom,      \* what the view's viewport reports: <<columns, lines>>
    columns,    \* Process._columns
    lines,      \* Process._lines
    master,     \* PtyProcess._master (and _slave): the PTY pair held, 0 for None
    process,    \* PtyProcess._process: the child held, 0 for None
    poll,       \* PtyProcess._poll: the PTY masters registered for POLLIN
    openfds,    \* PTY pairs of the session whose descriptors are open
    child,      \* child[s][k]: the child spawned on PTY pair k of session s
    pending,    \* pending[s][k]: bytes waiting unread on master k of session s
    dirty,      \* DiffScreen.dirty of the session's screen
    display,    \* DiffScreen.display: the content of each tracked line
    pc,         \* where the calling thread is
    last        \* the call in progress or last made, and what it did

ownVars == <<handle, vheld, alive, valive, processes, views, vproc>>
geomVars == <<vgeom, columns, lines>>
ptyVars == <<master, process, poll, openfds, child, pending>>
emuVars == <<dirty, display>>
vars == <<handle, vheld, alive, valive, processes, views, vproc, vgeom, columns,
          lines, master, process, poll, openfds, child, pending, dirty, display,
          pc, last>>

\* ------------------------------------------------------------- helpers

Range(q) == {q[i] : i \in 1..Len(q)}

Min2(a, b) == IF a < b THEN a ELSE b

\* Every ordering of a finite set, as sequences.
Orderings(S) ==
    {q \in [1..Cardinality(S) -> S] : \A i, j \in 1..Cardinality(S) : i # j => q[i] # q[j]}

Idle == [at |-> "idle", op |-> "None", s |-> None, read |-> 0, rest |-> <<>>, held |-> {}]

NoLast == [op |-> "None", s |-> None, v |-> None, ret |-> -1, res |-> None,
           raised |-> "None", snap |-> {}, polled |-> <<>>, fed |-> 0, maxchunk |-> 0,
           refreshes |-> <<>>, pushes |-> <<>>, fill |-> <<0, 0>>, wrote |-> "None",
           arg |-> "None", fd |-> 0]

\* The sessions the calling thread's frames hold: self of a running _read, and
\* the list self.processes.values() that read_all iterates over.
FrameRefs(p) == p.held

\* ----------------------------------------------------------- ownership

\* Supervisor.processes is a WeakValueDictionary: an entry is no strong reference.
RegistryHoldsStrong(s, reg) == s \in reg
RegistryHolds(s, reg) == FALSE

\* Object o has a strong reference from the application, from a frame, or from
\* an object of L: a view's _process names its session, a session's _views
\* names its views.
Supported(o, L, h, vh, vw, vp, fr, reg) ==
    IF o \in Procs
    THEN h[o] \/ o \in fr \/ RegistryHolds(o, reg)
         \/ \E v \in L \cap ViewIds : vp[v] = o
    ELSE vh[o] \/ \E s \in L \cap Procs : o \in Range(vw[s])

\* Reference counting: the objects of A left once every object whose count
\* fell to zero is deallocated, and those it alone kept alive after it.  Objects
\* on a reference cycle stay.
Survivors(A, h, vh, vw, vp, fr, reg) ==
    UNION {L \in SUBSET A : \A o \in L : Supported(o, L, h, vh, vw, vp, fr, reg)}

\* The cycle collector: the objects of A reachable from the application or a frame.
Reachable(A, h, vh, vw, vp, fr, reg) ==
    LET Closed(R) == \A o \in A : Supported(o, R, h, vh, vw, vp, fr, reg) => o \in R
    IN  {o \in A : \A R \in SUBSET A : Closed(R) => o \in R}

LiveObjects == {s \in Procs : alive[s]} \cup {v \in ViewIds : valive[v]}

\* The ownership variables after a step that left the references h, vh, vw, vp
\* and the live objects L.
Settle(L, h, vh, vw, vp) ==
    /\ handle' = h
    /\ vheld' = vh
    /\ alive' = [s \in Procs |-> s \in L]
    /\ valive' = [v \in ViewIds |-> v \in L]
    /\ processes' = processes \cap L
    /\ views' = [s \in Procs |-> IF s \in L THEN vw[s] ELSE <<>>]
    /\ vproc' = [v \in ViewIds |-> IF v \in L THEN vp[v] ELSE None]

\* A step of the calling thread that changed references: counts that fell to
\* zero deallocate at once.
Release(h, vh, vw, vp, fr) ==
    Settle(Survivors(LiveObjects, h, vh, vw, vp, fr, processes), h, vh, vw, vp)

\* ------------------------------------------------------------ geometry

\* Process.available_columns / available_lines: the loop over _views.
RECURSIVE MinOver(_, _, _)
MinOver(acc, q, i) ==
    IF q = <<>> THEN acc ELSE MinOver(Min2(acc, vgeom[Head(q)][i]), Tail(q), i)

available_columns(s) == MinOver(DEFAULT_COLUMNS, views[s], 1)
available_lines(s) == MinOver(DEFAULT_LINES, views[s], 2)

\* ---------------------------------------------------------------- Init

\* Process.__init__ and PtyProcess.__init__ of every session, SublimeView.__init__
\* of every view; the creator holds each new object.
\* DiffScreen.dirty of a screen just constructed: pyte leaves it empty, or
\* marks every line dirty when the constructor resets the screen.
InitialDirty == {{}, Lines}

Init ==
    /\ handle = [s \in Procs |-> TRUE]
    /\ vheld = [v \in ViewIds |-> TRUE]
    /\ alive = [s \in Procs |-> TRUE]
    /\ valive = [v \in ViewIds |-> TRUE]
    /\ processes = Procs
    /\ views = [s \in Procs |-> <<>>]
    /\ vproc = [v \in ViewIds |-> None]
    /\ vgeom = [v \in ViewIds |-> IF v = "v1" THEN <<100, 40>> ELSE <<60, 20>>]
    /\ columns = [s \in Procs |-> DEFAULT_COLUMNS]
    /\ lines = [s \in Procs |-> DEFAULT_LINES]
    /\ master = [s \in Procs |-> 0]
    /\ process = [s \in Procs |-> 0]
    /\ poll = [s \in Procs |-> {}]
    /\ openfds = [s \in Procs |-> {}]
    /\ child = [s \in Procs |-> [k \in Ptys |-> "none"]]
    /\ pending = [s \in Procs |-> [k \in Ptys |-> 0]]
    /\ \E D \in InitialDirty : dirty = [s \in Procs |-> D]
    /\ display = [s \in Procs |-> [l \in Lines |-> 0]]
    /\ pc = Idle
    /\ last = NoLast

\* -------------------------------------------------------- view handlers

\* Process.detach_view(view): the session's _views list after the call.  The
\* body is pass.
detach_view(q, v) == q

\* SublimeView.process setter: detach from the old session, set the
\* back-reference, fill the view with stars at the new session's geometry.
\* Gives the _views lists after the detach_view call.
SetterViews(vw, v) ==
    IF vproc[v] # None THEN [vw EXCEPT ![vproc[v]] = detach_view(@, v)] ELSE vw

SetterFill(np) == IF np # None THEN <<columns[np], lines[np]>> ELSE <<0, 0>>

\* Process.attach_view(view)
AttachView(s, v) ==
    /\ pc.at = "idle"
    /\ alive[s] /\ vheld[v]
    /\ Len(views[s]) < MaxAttach
    /\ LET vw == SetterViews([views EXCEPT ![s] = Append(@, v)], v)
           vp == [vproc EXCEPT ![v] = s]
       IN  Release(handle, vheld, vw, vp, {})
    /\ last' = [NoLast EXCEPT !.op = "attach_view", !.s = s, !.v = v,
                              !.fill = SetterFill(s)]
    /\ UNCHANGED <<geomVars, ptyVars, emuVars, pc>>

\* Process.detach_view(view), called by the application.
DetachView(s, v) ==
    /\ pc.at = "idle"
    /\ alive[s] /\ vheld[v]
    /\ Release(handle, vheld, [views EXCEPT ![s] = detach_view(@, v)], vproc, {})
    /\ last' = [NoLast EXCEPT !.op = "detach_view", !.s = s, !.v = v]
    /\ UNCHANGED <<geomVars, ptyVars, emuVars, pc>>

\* view.process = new_process, assigned by the application (np may be None).
SetViewProcess(v, np) ==
    /\ pc.at = "idle"
    /\ vheld[v]
    /\ np # None => alive[np]
    /\ Release(handle, vheld, SetterViews(views, v), [vproc EXCEPT ![v] = np], {})
    /\ last' = [NoLast EXCEPT !.op = "set_process", !.s = np, !.v = v,
                              !.fill = SetterFill(np)]
    /\ UNCHANGED <<geomVars, ptyVars, emuVars, pc>>

\* The host editor resizes the view's viewport.
ViewResize(v, g) ==
    /\ valive[v]
    /\ vgeom[v] # g
    /\ vgeom' = [vgeom EXCEPT ![v] = g]
    /\ UNCHANGED <<ownVars, columns, lines, ptyVars, emuVars, pc, last>>

\* ---------------------------------------------------- memory management

\* The application drops its reference to session s.
ReleaseHandle(s) ==
    /\ pc.at = "idle"
    /\ handle[s]
    /\ Release([handle EXCEPT ![s] = FALSE], vheld, views, vproc, {})
    /\ UNCHANGED <<geomVars, ptyVars, emuVars, pc, last>>

\* The application drops its reference to view v.
ReleaseView(v) ==
    /\ pc.at = "idle"
    /\ vheld[v]
    /\ Release(handle, [vheld EXCEPT ![v] = FALSE], views, vproc, {})
    /\ UNCHANGED <<geomVars, ptyVars, emuVars, pc, last>>

\* CPython's cycle collector runs, between any two steps of the thread.
CollectCycles ==
    /\ Reachable(LiveObjects, handle, vheld, views, vproc, FrameRefs(pc), processes)
         # LiveObjects
    /\ Settle(Reachable(LiveObjects, handle, vheld, views, vproc, FrameRefs(pc), processes),
              handle, vheld, views, vproc)
    /\ UNCHANGED <<geomVars, ptyVars, emuVars, pc, last>>

\* -------------------------------------------------------- the registry

\* Supervisor.process(process_id), as a function of the registry.
Supervisor_process(id) == IF id \in processes THEN id ELSE None

\* Supervisor.process(process_id): the membership test.
Lookup(id) ==
    /\ pc.at = "idle"
    /\ IF id \in processes
       THEN /\ pc' = [Idle EXCEPT !.at = "fetch", !.op = "process", !.s = id]
            /\ last' = [NoLast EXCEPT !.op = "process", !.s = id]
       ELSE /\ pc' = Idle
            /\ last' = [NoLast EXCEPT !.op = "process", !.s = id, !.res = None]
    /\ UNCHANGED <<ownVars, geomVars, ptyVars, emuVars>>

\* Supervisor.process(process_id): the fetch self.processes[process_id].  The
\* caller keeps the session it got, or drops it.
LookupFetch ==
    /\ pc.at = "fetch"
    /\ pc' = Idle
    /\ IF pc.s \in processes
       THEN /\ last' = [last EXCEPT !.res = pc.s]
            /\ \E keep \in BOOLEAN :
                 Release([handle EXCEPT ![pc.s] = @ \/ keep], vheld, views, vproc, {})
       ELSE /\ last' = [last EXCEPT !.raised = "KeyError"]
            /\ UNCHANGED ownVars
    /\ UNCHANGED <<geomVars, ptyVars, emuVars>>

\* ----------------------------------------------------- session lifecycle

\* PtyProcess.is_running()
is_running(s) == process[s] # 0

\* PtyProcess.start() / _start(): pty.openpty(), subprocess.Popen, then
\* self._poll.register.  openpty or Popen may raise OSError.
Start(s) ==
    /\ pc.at = "idle"
    /\ alive[s]
    /\ Cardinality(openfds[s]) < MaxStarts
    /\ LET k == Cardinality(openfds[s]) + 1 IN
       \/ /\ last' = [NoLast EXCEPT !.op = "start", !.s = s, !.raised = "OSError"]
          /\ UNCHANGED ptyVars
       \/ /\ master' = [master EXCEPT ![s] = k]
          /\ openfds' = [openfds EXCEPT ![s] = @ \cup {k}]
          /\ last' = [NoLast EXCEPT !.op = "start", !.s = s, !.raised = "OSError"]
          /\ UNCHANGED <<process, poll, child, pending>>
       \/ /\ master' = [master EXCEPT ![s] = k]
          /\ openfds' = [openfds EXCEPT ![s] = @ \cup {k}]
          /\ process' = [process EXCEPT ![s] = k]
          /\ child' = [child EXCEPT ![s][k] = "running"]
          /\ poll' = [poll EXCEPT ![s] = @ \cup {k}]
          /\ last' = [NoLast EXCEPT !.op = "start", !.s = s]
          /\ UNCHANGED pending
    /\ UNCHANGED <<ownVars, geomVars, emuVars, pc>>

\* PtyProcess.stop(): self._process.kill(); self._process = None.
Stop(s) ==
    /\ pc.at = "idle"
    /\ alive[s]
    /\ IF process[s] = 0
       THEN /\ last' = [NoLast EXCEPT !.op = "stop", !.s = s, !.raised = "AttributeError"]
            /\ UNCHANGED ptyVars
       ELSE /\ child' = [child EXCEPT ![s][process[s]] = "killed"]
            /\ process' = [process EXCEPT ![s] = 0]
            /\ last' = [NoLast EXCEPT !.op = "stop", !.s = s]
            /\ UNCHANGED <<master, poll, openfds, pending>>
    /\ UNCHANGED <<ownVars, geomVars, emuVars, pc>>

\* A running child writes w bytes to its terminal.  Output of a child whose
\* session object is gone is read by nobody and is not tracked.
ChildWrite(s, k, w) ==
    /\ alive[s]
    /\ child[s][k] = "running"
    /\ pending[s][k] + w <= MaxPending
    /\ (pc.at \in {"poll", "read"} /\ pc.s = s) => pc.read + pending[s][k] + w <= MaxRead
    /\ pending' = [pending EXCEPT ![s][k] = @ + w]
    /\ UNCHANGED <<ownVars, geomVars, master, process, poll, openfds, child,
                   emuVars, pc, last>>

\* A running child exits on its own.
ChildExit(s, k) ==
    /\ child[s][k] = "running"
    /\ child' = [child EXCEPT ![s][k] = "exited"]
    /\ UNCHANGED <<ownVars, geomVars, master, process, poll, openfds, pending,
                   emuVars, pc, last>>

\* ------------------------------------------------------------- reading

\* self._poll.poll(0) of session s is non-empty: a registered master has input.
\* The session keeps every slave descriptor open, so no master hangs up.
PollReady(s) == \E k \in poll[s] : pending[s][k] > 0

\* The calling thread sits in os.read on a master with nothing to read.
Blocked == pc.at = "read" /\ master[pc.s] # 0 /\ pending[pc.s][master[pc.s]] = 0

\* What refresh_views of session s hands to diff_refresh.
lines_dict_all(s) == [l \in Lines |-> display[s][l]]
lines_dict(s) == [l \in dirty[s] |-> display[s][l]]

\* The diff_refresh calls of refresh_views of session s, in order.
RefreshPushes(s) ==
    [i \in 1..Len(views[s]) |-> [s |-> s, v |-> views[s][i], lines_dict |-> lines_dict(s)]]

\* PtyProcess.refresh_views, as the log of the call and the dirty set after it.
refresh_views(s, log) ==
    /\ dirty' = [dirty EXCEPT ![s] = {}]
    /\ last' = [log EXCEPT !.refreshes = Append(@, [s |-> s, lines_dict |-> lines_dict(s)]),
                           !.pushes = @ \o RefreshPushes(s)]

\* The application calls PtyProcess._read of session s.
PollAndRead(s) ==
    /\ pc.at = "idle"
    /\ alive[s]
    /\ pc' = [Idle EXCEPT !.at = "poll", !.op = "_read", !.s = s, !.held = {s}]
    /\ last' = [NoLast EXCEPT !.op = "_read", !.s = s, !.polled = <<s>>]
    /\ UNCHANGED <<ownVars, geomVars, ptyVars, emuVars>>

\* Supervisor.read_all(): the loop over self.processes.values(), in the
\* dictionary's order.
ReadAll ==
    /\ pc.at = "idle"
    /\ IF processes = {}
       THEN /\ pc' = Idle
            /\ last' = [NoLast EXCEPT !.op = "read_all"]
       ELSE \E ord \in Orderings(processes) :
            /\ pc' = [Idle EXCEPT !.at = "poll", !.op = "read_all", !.s = Head(ord),
                                  !.rest = Tail(ord), !.held = processes]
            /\ last' = [NoLast EXCEPT !.op = "read_all", !.snap = processes,
                                      !.polled = <<Head(ord)>>]
    /\ UNCHANGED <<ownVars, geomVars, ptyVars, emuVars>>

\* _read: if not self._poll.poll(0): break; after the loop, refresh_views when
\* read is not 0, and return read.  The caller then goes on: read_all with its
\* next session.  Frames that return drop their references.
ReadPoll ==
    /\ pc.at = "poll"
    /\ IF PollReady(pc.s)
       THEN /\ pc' = [pc EXCEPT !.at = "read"]
            /\ UNCHANGED <<ownVars, emuVars, last>>
       ELSE LET log == [last EXCEPT !.ret = pc.read, !.fed = IF pc.rest # <<>> THEN 0 ELSE @,
                                    !.polled = IF pc.rest # <<>> THEN Append(@, Head(pc.rest))
                                               ELSE @]
                nxt == IF pc.rest # <<>>
                       THEN [pc EXCEPT !.at = "poll", !.s = Head(pc.rest), !.read = 0,
                                       !.rest = Tail(pc.rest)]
                       ELSE Idle
            IN  /\ pc' = nxt
                /\ IF pc.read # 0
                   THEN refresh_views(pc.s, log)
                   ELSE last' = log /\ dirty' = dirty
                /\ display' = display
                /\ Release(handle, vheld, views, vproc, FrameRefs(nxt))
    /\ UNCHANGED <<geomVars, ptyVars>>

\* pyte's ByteStream.feed of one chunk, which the screen answers by drawing on
\* the lines D: they hold text and are dirty.
feed(s, D) ==
    /\ dirty' = [dirty EXCEPT ![s] = @ \cup D]
    /\ display' = [display EXCEPT ![s] = [l \in Lines |-> IF l \in D THEN 1 ELSE @[l]]]

\* len(os.read(self._master, 100)) with avail bytes waiting on the master.
os_read_all(avail) == avail
os_read_len(avail) == Min2(ChunkSize, avail)

\* _read: data = os.read(self._master, 100); read += len(data);
\* self._stream.feed(data).  os.read waits while the master has nothing to
\* read, and may raise OSError, which leaves _read and its callers.
ReadChunk ==
    /\ pc.at = "read"
    /\ master[pc.s] # 0
    /\ pending[pc.s][master[pc.s]] > 0
    /\ \/ /\ pc' = Idle
          /\ last' = [last EXCEPT !.raised = "OSError"]
          /\ Release(handle, vheld, views, vproc, {})
          /\ UNCHANGED <<ptyVars, emuVars>>
       \/ LET n == os_read_len(pending[pc.s][master[pc.s]]) IN
          /\ pending' = [pending EXCEPT ![pc.s][master[pc.s]] = @ - n]
          /\ pc' = [pc EXCEPT !.at = "poll", !.read = @ + n]
          /\ last' = [last EXCEPT !.fed = @ + n, !.maxchunk = IF n > @ THEN n ELSE @]
          /\ \E D \in SUBSET Lines : feed(pc.s, D)
          /\ UNCHANGED <<ownVars, master, process, poll, openfds, child>>
    /\ UNCHANGED geomVars

\* The application calls PtyProcess.refresh_views of session s.
RefreshViews(s) ==
    /\ pc.at = "idle"
    /\ alive[s]
    /\ refresh_views(s, [NoLast EXCEPT !.op = "refresh_views", !.s = s])
    /\ UNCHANGED <<ownVars, geomVars, ptyVars, display, pc>>

\* ------------------------------------------------------------- writing

\* PtyProcess.KEYMAP.  ESC (\x1b) is written ^[ and backspace (\b) ^H; the
\* value of f8 starts with a backslash and an e, as the source spells it.
KEYMAP ==
    [k \in {"enter", "tab", "f10", "space", "f8", "escape", "down", "up", "right",
            "left", "backspace"} |->
        CASE k = "enter" -> "\n"
          [] k = "tab" -> "\t"
          [] k = "f10" -> "^[[21~"
          [] k = "space" -> " "
          [] k = "f8" -> "\\e[[19~"
          [] k = "escape" -> "^[^["
          [] k = "down" -> "^[[B"
          [] k = "up" -> "^[[A"
          [] k = "right" -> "^[[C"
          [] k = "left" -> "^[[D"
          [] k = "backspace" -> "^H"]

\* The strings the application sends: a key name of the keymap or literal text.
Inputs == {"enter", "a"}
\* The modifier flags of send_keypress: ctrl, alt, shift, super.
Modifiers == SUBSET {"ctrl", "alt", "shift", "super"}

\* send_bytes: what reaches os.write for the argument b.
written_bytes(b) == IF b \in DOMAIN KEYMAP THEN KEYMAP[b] ELSE b

\* send_keypress(key, ctrl, alt, shift, super): what reaches os.write.
keypress_bytes_ctrl(key, mods) ==
    IF "ctrl" \in mods THEN "^" \o written_bytes(key) ELSE written_bytes(key)
keypress_bytes(key, mods) == written_bytes(key)

\* send_bytes as a step on the log: os.write(self._master, bytes) writes data,
\* and raises TypeError when _master is None.
os_write(s, log, data) ==
    IF master[s] = 0 THEN [log EXCEPT !.raised = "TypeError"]
    ELSE [log EXCEPT !.wrote = data, !.fd = master[s]]

\* PtyProcess.send_bytes(bytes)
SendBytes(s, b) ==
    /\ pc.at = "idle"
    /\ alive[s]
    /\ last' = os_write(s, [NoLast EXCEPT !.op = "send_bytes", !.s = s, !.arg = b],
                        written_bytes(b))
    /\ UNCHANGED <<ownVars, geomVars, ptyVars, emuVars, pc>>

\* The _read that send_keypress makes after send_bytes returned.
keypress_read(s) == [Idle EXCEPT !.at = "poll", !.op = "send_keypress", !.s = s, !.held = {s}]

\* PtyProcess.send_keypress(key, ctrl, alt, shift, super): send_bytes(key), then
\* _read().  An exception of send_bytes leaves send_keypress before the read.
SendKeypress(s, key, mods) ==
    /\ pc.at = "idle"
    /\ alive[s]
    /\ LET log == os_write(s, [NoLast EXCEPT !.op = "send_keypress", !.s = s, !.arg = key],
                           keypress_bytes(key, mods))
       IN  IF log.raised # "None"
           THEN pc' = Idle /\ last' = log
           ELSE pc' = keypress_read(s) /\ last' = [log EXCEPT !.polled = <<s>>]
    /\ UNCHANGED <<ownVars, geomVars, ptyVars, emuVars>>

\* ------------------------------------------------------- specifications

\* The sessions whose lifecycle a one-session specification drives; sweeps
\* still visit every registered session.
Driven == {"p1"}
\* The views of the ownership specification.
Owned == {"v1"}

ViewCalls(VS) ==
    \/ \E s \in Procs, v \in VS : AttachView(s, v)
    \/ \E s \in Procs, v \in VS : DetachView(s, v)
    \/ \E v \in VS, np \in Procs \cup {None} : SetViewProcess(v, np)

ReadSteps == ReadPoll \/ ReadChunk

Children(PS) ==
    \/ \E s \in PS, k \in Ptys, w \in WriteSizes : ChildWrite(s, k, w)
    \/ \E s \in PS, k \in Ptys : ChildExit(s, k)

\* The view side: attaching, detaching, re-pointing and resizing views.
NextViews ==
    \/ ViewCalls(ViewIds)
    \/ \E v \in ViewIds, g \in Geoms : ViewResize(v, g)

SpecViews == Init /\ [][NextViews]_vars

\* The process side: the lifecycle of one session, its children, and reads.
NextPty ==
    \/ \E s \in Driven : Start(s)
    \/ \E s \in Driven : Stop(s)
    \/ Children(Driven)
    \/ \E s \in Driven : PollAndRead(s)
    \/ ReadAll
    \/ ReadSteps

SpecPty == Init /\ [][NextPty]_vars

\* Ownership: references taken and dropped, the registry, and sweeps.
NextOwn ==
    \/ ViewCalls(Owned)
    \/ \E s \in Procs : ReleaseHandle(s)
    \/ \E v \in Owned : ReleaseView(v)
    \/ CollectCycles
    \/ \E id \in Procs : Lookup(id)
    \/ LookupFetch
    \/ ReadAll
    \/ ReadPoll

SpecOwn == Init /\ [][NextOwn]_vars

\* Destruction: starting, stopping and dropping sessions.
NextDestroy ==
    \/ \E s \in Procs : Start(s)
    \/ \E s \in Procs : Stop(s)
    \/ \E s \in Procs, k \in Ptys : ChildExit(s, k)
    \/ \E s \in Procs : ReleaseHandle(s)

SpecDestroy == Init /\ [][NextDestroy]_vars

\* Raw writes: one session's lifecycle, and the bytes the application sends.
NextKeys ==
    \/ \E s \in Driven : Start(s)
    \/ \E s \in Driven : Stop(s)
    \/ Children(Driven)
    \/ \E s \in Driven, b \in Inputs : SendBytes(s, b)

SpecKeys == Init /\ [][NextKeys]_vars

\* Typing: key presses sent to one session while its child writes.
NextType ==
    \/ \E s \in Driven : Start(s)
    \/ \E s \in Driven, k \in Ptys, w \in WriteSizes : ChildWrite(s, k, w)
    \/ \E s \in Driven, key \in Inputs, mods \in Modifiers : SendKeypress(s, key, mods)
    \/ ReadSteps

SpecType == Init /\ [][NextType]_vars

\* The reading side: one session's child writes, and the session is read and
\* refreshed.
NextRead ==
    \/ \E s \in Driven : Start(s)
    \/ \E s \in Driven, k \in Ptys, w \in WriteSizes : ChildWrite(s, k, w)
    \/ \E s \in Driven : PollAndRead(s)
    \/ \E s \in Driven : RefreshViews(s)
    \/ ReadSteps

SpecRead == Init /\ [][NextRead]_vars

\* Pushes: views are attached to one session while it is read and refreshed.
NextPush ==
    \/ \E s \in Driven, v \in ViewIds : AttachView(s, v)
    \/ \E s \in Driven : Start(s)
    \/ \E s \in Driven, k \in Ptys, w \in WriteSizes : ChildWrite(s, k, w)
    \/ \E s \in Driven : PollAndRead(s)
    \/ ReadSteps

SpecPush == Init /\ [][NextPush]_vars

\* --------------------------------------------------------------- claims

\* The children session s has spawned, and whether stop() has killed one.
Spawned(s) == {k \in Ptys : child[s][k] # "none"}
Stopped(s) == \E k \in Ptys : child[s][k] = "killed"

\* _views without view v.
Without(q, v) == SelectSeq(q, LAMBDA x : x # v)

\* C1: after detach_view(v) on session s, v is no longer in s's attached-view
\* list: a refresh push of s delivers nothing to v, and v's geometry takes no
\* part in s's geometry minimum.
C1_DetachRemovesView ==
    last.op = "detach_view" =>
        /\ last.v \notin Range(views[last.s])
        /\ \A i \in 1..Len(RefreshPushes(last.s)) : RefreshPushes(last.s)[i].v # last.v
        /\ available_columns(last.s) = MinOver(DEFAULT_COLUMNS, Without(views[last.s], last.v), 1)
        /\ available_lines(last.s) = MinOver(DEFAULT_LINES, Without(views[last.s], last.v), 2)

\* C2: every view is in the attached-view list of at most one session, and that
\* session is the one the view's back-reference names.
C2_OneSessionPerView ==
    \A v \in ViewIds :
        /\ Cardinality({s \in Procs : v \in Range(views[s])}) <= 1
        /\ \A s \in Procs : v \in Range(views[s]) => vproc[v] = s

\* The component-wise minimum of what the attached views report, and the
\* default geometry when no view is attached.
RECURSIVE MinGeom(_, _)
MinGeom(q, i) ==
    IF Len(q) = 1 THEN vgeom[q[1]][i] ELSE Min2(vgeom[Head(q)][i], MinGeom(Tail(q), i))

ExpectedGeometry(s) ==
    IF views[s] = <<>> THEN <<DEFAULT_COLUMNS, DEFAULT_LINES>>
    ELSE <<MinGeom(views[s], 1), MinGeom(views[s], 2)>>

\* C3: the session's geometry (columns, lines) is the component-wise minimum
\* of the geometry its attached views report, and 80x24 with no view attached.
C3_GeometryIsMinimum ==
    \A s \in Procs : alive[s] => <<columns[s], lines[s]>> = ExpectedGeometry(s)

\* C4: a session that has been stopped is never running again, and a session
\* spawns at most one child over its lifetime.
C4_StoppedIsTerminal ==
    \A s \in Procs :
        /\ Stopped(s) => ~is_running(s)
        /\ Cardinality(Spawned(s)) <= 1

\* C5: stop() on a session that is already stopped raises nothing.
C5_StopIdempotent ==
    (last.op = "stop" /\ Stopped(last.s)) => last.raised = "None"

\* C6: once a started session has been stopped, or its object is gone and its
\* registry entry with it, none of its children runs and none of its PTY
\* descriptors is open.
C6_DestroyedReleasesAll ==
    \A s \in Procs :
        ((Stopped(s) /\ ~is_running(s)) \/ s \notin processes) =>
            /\ \A k \in Ptys : child[s][k] # "running"
            /\ openfds[s] = {}

\* No strong reference to session s is left outside the registry: the
\* application holds none, and no view's back-reference names s.
Unowned(s) == ~handle[s] /\ \A v \in ViewIds : valive[v] => vproc[v] # s

\* C7: a session with no strong reference left outside the registry is not
\* found by lookup, and no sweep polls it.
C7_RegistryDoesNotOwn ==
    \A s \in Procs :
        Unowned(s) => /\ Supervisor_process(s) = None
                      /\ s \notin FrameRefs(pc)
                      /\ ~alive[s]

\* C7 witness: a sweep has run over the sessions left after one was dropped by
\* its last owner, and a lookup of the dropped one finds nothing.
C7_Witness ==
    /\ pc.at = "idle"
    /\ last.op = "read_all"
    /\ last.snap # {}
    /\ Range(last.polled) = last.snap
    /\ \E s \in Procs : Unowned(s) /\ s \notin last.snap /\ Supervisor_process(s) = None

\* C8: poll_and_read() never waits in a read, and returns 0 when it read nothing.
C8_ReadNeverBlocks ==
    /\ ~Blocked
    /\ (pc.at = "idle" /\ last.op = "_read" /\ last.raised = "None" /\ last.fed = 0)
         => last.ret = 0

\* C9: a finished sweep has polled every session that was registered when it
\* began, each exactly once.
C9_SweepPollsAll ==
    (pc.at = "idle" /\ last.op = "read_all") =>
        /\ Range(last.polled) = last.snap
        /\ Len(last.polled) = Cardinality(last.snap)

\* C10: after a read error in poll_and_read() the session is not running.
C10_ReadErrorStops ==
    (pc.at = "idle" /\ last.op \in {"_read", "read_all"} /\ last.raised = "OSError") =>
        ~is_running(last.polled[Len(last.polled)])

\* The session has never spawned a child.
NeverStarted(s) == Spawned(s) = {}

\* C11: send_bytes on a session that was never started, or that has been
\* stopped, fails with an error and writes nothing.
C11_ClosedWriteFails ==
    (last.op = "send_bytes" /\ (NeverStarted(last.s) \/ (Stopped(last.s) /\ ~is_running(last.s)))) =>
        /\ last.raised # "None"
        /\ last.wrote = "None"

\* C12: send_bytes writes its argument verbatim, also when the argument equals
\* a key name of the keymap.
C12_RawIsVerbatim ==
    (last.op = "send_bytes" /\ last.raised = "None") => last.wrote = last.arg

\* C13: send_keypress on a running session writes the keymap's bytes for a key
\* of the keymap and the key itself otherwise, whatever the modifiers, to the
\* session's master; then it makes one _read, and returns what that _read
\* returns.
C13_KeypressWritesThenReads ==
    (last.op = "send_keypress" /\ is_running(last.s)) =>
        /\ last.wrote = (IF last.arg \in DOMAIN KEYMAP THEN KEYMAP[last.arg] ELSE last.arg)
        /\ last.fd = master[last.s]
        /\ last.polled = <<last.s>>
        /\ pc.at # "idle" => (pc.op = "send_keypress" /\ pc.s = last.s /\ last.ret = -1)
        /\ (pc.at = "idle" /\ last.raised = "None") =>
               (last.ret = last.fed /\ Len(last.refreshes) <= 1)

\* C13 witness: "enter" was sent to a running session, a line feed was written,
\* and the read that followed has returned with the bytes it read.
C13_Witness ==
    /\ pc.at = "idle"
    /\ last.op = "send_keypress"
    /\ is_running(last.s)
    /\ last.arg = "enter"
    /\ last.wrote = "\n"
    /\ last.raised = "None"
    /\ last.ret > ChunkSize

\* C14: is_running() is true exactly when the session holds a child handle and
\* that child has not exited.
C14_RunningIffChildAlive ==
    \A s \in Procs :
        is_running(s) <=> (process[s] # 0 /\ child[s][process[s]] = "running")

\* C15: after a start() that failed on a session that has never spawned a
\* child, the session is not running, polls no descriptor and holds no PTY
\* descriptor.
C15_FailedStartLeavesCreated ==
    (last.op = "start" /\ last.raised # "None" /\ NeverStarted(last.s)) =>
        /\ ~is_running(last.s)
        /\ poll[last.s] = {}
        /\ master[last.s] = 0
        /\ openfds[last.s] = {}

\* C16: lookup(id) never raises.
C16_LookupNeverRaises ==
    last.op = "process" => last.raised = "None"

\* A step in which refresh_views of session s ran: the log of refreshes got a
\* new entry, which is the latest.
Latest(log) == log.refreshes[Len(log.refreshes)]
Refreshed(s) ==
    /\ last' # last
    /\ last'.op = "refresh_views" \/ Len(last'.refreshes) > Len(last.refreshes)
    /\ Latest(last').s = s

\* C17: a refresh of session s hands over exactly the lines that are dirty when
\* it runs, with their content, and leaves the dirty set empty and the content
\* as it was; a refresh that follows a refresh of s with no feed between hands
\* over an empty mapping.
C17_RefreshConsumesDirty ==
    [][\A s \in Procs : Refreshed(s) =>
          /\ DOMAIN Latest(last').lines_dict = dirty[s]
          /\ \A l \in dirty[s] : Latest(last').lines_dict[l] = display[s][l]
          /\ dirty'[s] = {}
          /\ display'[s] = display[s]
          /\ (last.op = "refresh_views" /\ last.s = s /\ last'.op = "refresh_views")
                => DOMAIN Latest(last').lines_dict = {}]_vars

\* C17 witness: a _read has fed output that drew on every line, and its refresh
\* handed over all of them and left nothing dirty.
C17_Witness ==
    /\ pc.at = "idle"
    /\ last.op = "_read"
    /\ Len(last.refreshes) = 1
    /\ DOMAIN last.refreshes[1].lines_dict = Lines
    /\ dirty[last.s] = {}

\* C18: a _read takes chunks of at most 100 bytes and feeds each as it is read;
\* a _read that returns returns the number of bytes fed, and has refreshed once,
\* after the last chunk, when that number is above 0 and not at all when it is 0.
C18_ReadChunksAndRefresh ==
    last.op = "_read" =>
        /\ last.maxchunk <= ChunkSize
        /\ pc.at # "idle" => (last.refreshes = <<>> /\ last.fed = pc.read)
        /\ (pc.at = "idle" /\ last.raised = "None") =>
               /\ last.ret = last.fed
               /\ Len(last.refreshes) = (IF last.ret > 0 THEN 1 ELSE 0)
               /\ last.ret > 0 => dirty[last.s] = {}

\* C18 witness: a _read has returned after more than one chunk, the largest of
\* 100 bytes, and refreshed once.
C18_Witness ==
    /\ pc.at = "idle"
    /\ last.op = "_read"
    /\ last.raised = "None"
    /\ last.ret > ChunkSize
    /\ last.maxchunk = ChunkSize
    /\ Len(last.refreshes) = 1

\* C19: while no _read is in progress, no line that a feed has drawn on is
\* waiting in a session's dirty set.
C19_NoStrandedDirt ==
    pc.at = "idle" => \A s \in Procs : \A l \in dirty[s] : display[s][l] = 0

\* C20: the diff_refresh calls of one refresh of a session go to distinct
\* views, each with the mapping of that refresh.
C20_OnePushPerView ==
    \A i, j \in 1..Len(last.pushes) :
        (last.pushes[i].s = last.pushes[j].s /\ last.pushes[i].v = last.pushes[j].v) => i = j

====
